---- MODULE Spec2Model ----
(***************************************************************************)
(* A model of notifico's GitHub hook service                               *)
(* (src/notifico/services/hooks/github.py): the dispatcher handle_request, *)
(* the whitelist gate, the push summarizer, the non-push renderers and the *)
(* git.io link shortener.                                                  *)
(*                                                                         *)
(* One behaviour is one call: Init draws what the caller hands over (the   *)
(* HTTP request and the hook's configuration, or a URL for shorten), the   *)
(* actions run the code on it and leave the outcome in out / raised / log. *)
(***************************************************************************)
EXTENDS Integers, Sequences, FiniteSets, TLC

VARIABLES
    request,    \* the inbound request: transport, body, X-GitHub-Event
    hook,       \* hook.config: None or a mapping of options
    service,    \* how git.io answers the requests.post calls of this run
    pc,         \* "received" | "done" for a hook request; "shorten" | "returned"
    out,        \* the lines the handler yielded, in order
    raised,     \* the exception that reached the caller, or NoException
    log,        \* gate decisions and shortener calls, in execution order
    calls       \* the direct calls of shorten made so far, in order

vars == <<request, hook, service, pc, out, raised, log, calls>>

----------------------------------------------------------------------------
(* Bounds of the model.                                                     *)

MaxCommits == 4     \* longest commits list of a push payload
MaxLimit == 3       \* largest line_limit tried
MaxPages == 2       \* longest pages list of a gollum payload
MaxCalls == 2       \* direct calls of shorten chained in one run

----------------------------------------------------------------------------
(* Python values.  A JSON value whose kind matters to the code is tagged,  *)
(* so that None, strings and objects can be told apart.                    *)

None == [t |-> "None"]
Str(s) == [t |-> "str", s |-> s]
Obj(o) == [t |-> "dict", o |-> o]
IsNone(v) == v.t = "None"
IsStr(v) == v.t = "str"

NoException == "none"

\* dict.get(key, default)
Get(d, k, default) == IF k \in DOMAIN d THEN d[k] ELSE default

\* Python truthiness of a tagged value: None, '' and {} are falsy.
Truthy(v) ==
    CASE v.t = "None" -> FALSE
      [] v.t = "str" -> v.s # ""
      [] v.t = "dict" -> DOMAIN v.o # {}
      [] OTHER -> TRUE

----------------------------------------------------------------------------
(* Strings.                                                                 *)

UpperCase == "ABCDEFGHIJKLMNOPQRSTUVWXYZ"
LowerCase == "abcdefghijklmnopqrstuvwxyz"

CharAt(s, i) == SubSeq(s, i, i)

StartsWith(s, p) == Len(s) >= Len(p) /\ SubSeq(s, 1, Len(p)) = p

LowerChar(c) ==
    IF \E i \in 1..Len(UpperCase) : CharAt(UpperCase, i) = c
    THEN CharAt(LowerCase, CHOOSE i \in 1..Len(UpperCase) : CharAt(UpperCase, i) = c)
    ELSE c

\* str.lower()
RECURSIVE lower(_)
lower(s) ==
    IF s = "" THEN "" ELSE LowerChar(CharAt(s, 1)) \o lower(SubSeq(s, 2, Len(s)))

IsSpace(c) == c \in {" ", "\t", "\n", "\r"}

RECURSIVE lstrip(_)
lstrip(s) ==
    IF s # "" /\ IsSpace(CharAt(s, 1)) THEN lstrip(SubSeq(s, 2, Len(s))) ELSE s

RECURSIVE rstrip(_)
rstrip(s) ==
    IF s # "" /\ IsSpace(CharAt(s, Len(s))) THEN rstrip(SubSeq(s, 1, Len(s) - 1)) ELSE s

\* str.strip()
strip(s) == rstrip(lstrip(s))

\* str.split(sep) for a one-character separator: always at least one part.
RECURSIVE SplitFrom(_, _, _)
SplitFrom(s, sep, acc) ==
    IF s = "" THEN <<acc>>
    ELSE IF CharAt(s, 1) = sep
         THEN <<acc>> \o SplitFrom(SubSeq(s, 2, Len(s)), sep, "")
         ELSE SplitFrom(SubSeq(s, 2, Len(s)), sep, acc \o CharAt(s, 1))

split(s, sep) == SplitFrom(s, sep, "")

Range(f) == {f[i] : i \in DOMAIN f}

----------------------------------------------------------------------------
(* simplify_payload.                                                        *)

\* ref_r = re.compile(r'refs/(heads|tags)/(.*)$') applied with ref_r.match:
\* anchored at the start; '.' matches no line break and '$' also matches
\* before one final line break.
HasNewline(s) == \E i \in 1..Len(s) : CharAt(s, i) = "\n"

RefName(rest) ==
    IF ~HasNewline(rest) THEN [ok |-> TRUE, name |-> rest]
    ELSE IF ~HasNewline(SubSeq(rest, 1, Len(rest) - 1))
         THEN [ok |-> TRUE, name |-> SubSeq(rest, 1, Len(rest) - 1)]
         ELSE [ok |-> FALSE, name |-> ""]

ref_r_match(s) ==
    IF StartsWith(s, "refs/heads/")
    THEN LET m == RefName(SubSeq(s, Len("refs/heads/") + 1, Len(s)))
         IN  [ok |-> m.ok, type |-> "heads", name |-> m.name]
    ELSE IF StartsWith(s, "refs/tags/")
    THEN LET m == RefName(SubSeq(s, Len("refs/tags/") + 1, Len(s)))
         IN  [ok |-> m.ok, type |-> "tags", name |-> m.name]
    ELSE [ok |-> FALSE, type |-> "", name |-> ""]

\* The loop over (payload.get('ref', ''), payload.get('base_ref', '')):
\* re.match raises TypeError on a value that is no string; the first match
\* sets result['branch'] or result['tag'] and breaks.
RECURSIVE FindRef(_)
FindRef(refs) ==
    IF refs = <<>> THEN [raised |-> NoException, branch |-> None, tag |-> None]
    ELSE IF ~IsStr(Head(refs))
    THEN [raised |-> "TypeError", branch |-> None, tag |-> None]
    ELSE LET m == ref_r_match(Head(refs).s)
         IN  IF m.ok
             THEN IF m.type = "heads"
                  THEN [raised |-> NoException, branch |-> Str(m.name), tag |-> None]
                  ELSE [raised |-> NoException, branch |-> None, tag |-> Str(m.name)]
             ELSE FindRef(Tail(refs))

\* result['pusher']: payload['pusher'].get('name'), 'none' renamed.
PusherOf(payload) ==
    IF "pusher" \notin DOMAIN payload
    THEN [raised |-> NoException, pusher |-> None]
    ELSE IF payload["pusher"].t # "dict"
    THEN [raised |-> "AttributeError", pusher |-> None]
    ELSE LET name == Get(payload["pusher"].o, "name", None)
         IN  [raised |-> NoException,
              pusher |-> IF name = Str("none") THEN Str("A deploy key") ELSE name]

\* The file movement summary: commit[type_] for added, removed, modified.
FileKeys == {"added", "removed", "modified"}

RECURSIVE FilesOf(_)
FilesOf(commits) ==
    IF commits = <<>>
    THEN [raised |-> NoException, added |-> 0, removed |-> 0, modified |-> 0]
    ELSE IF ~(FileKeys \subseteq DOMAIN Head(commits))
    THEN [raised |-> "KeyError", added |-> 0, removed |-> 0, modified |-> 0]
    ELSE LET rest == FilesOf(Tail(commits))
             c == Head(commits)
         IN  [raised |-> rest.raised,
              added |-> Len(c["added"]) + rest.added,
              removed |-> Len(c["removed"]) + rest.removed,
              modified |-> Len(c["modified"]) + rest.modified]

simplify_payload(payload) ==
    LET r == FindRef(<<Get(payload, "ref", Str("")), Get(payload, "base_ref", Str(""))>>)
        p == PusherOf(payload)
        f == FilesOf(Get(payload, "commits", <<>>))
        exc == IF r.raised # NoException THEN r.raised
               ELSE IF p.raised # NoException THEN p.raised
               ELSE f.raised
    IN  [raised |-> exc, branch |-> r.branch, tag |-> r.tag, pusher |-> p.pusher,
         files |-> [added |-> f.added, removed |-> f.removed, modified |-> f.modified],
         original |-> payload]

----------------------------------------------------------------------------
(* The whitelist gate.                                                      *)

\* '{0}_{1}'.format(category, event) if event else category
event_name(category, event) ==
    IF Truthy(event) THEN category \o "_" \o event.s ELSE category

\* is_event_allowed without the test of an empty config['events']: an empty
\* whitelist would then reject everything.
is_event_allowed_strict(config, category, event) ==
    IF ~Truthy(config) \/ "events" \notin DOMAIN config.o
    THEN TRUE
    ELSE event_name(category, event) \in config.o["events"]

\* config is hook.config: None or a dict; config['events'] is a collection
\* of keys, here a set.
is_event_allowed(config, category, event) ==
    IF (~Truthy(config)) \/ Get(config.o, "events", {}) = {}
    THEN TRUE
    ELSE event_name(category, event) \in config.o["events"]

\* A gate decision as it is written to the log.
Gate(config, category, event) ==
    [op |-> "is_event_allowed", arg |-> event_name(category, event),
     ok |-> is_event_allowed(config, category, event)]

----------------------------------------------------------------------------
(* GithubHook.shorten.  A response of the service is what requests.post    *)
(* does: it raises, or it returns a status code and headers.               *)

ServiceHost == "git.io"

\* The pattern without its '?': only https URLs are recognized.
AlreadyShortened_https_only(url) ==
    /\ StartsWith(url, "https://")
    /\ LET rest == SubSeq(url, Len("https://") + 1, Len(url))
       IN  /\ Len(rest) >= 6
           /\ SubSeq(rest, 1, 3) = "git"
           /\ CharAt(rest, 4) # "\n"
           /\ SubSeq(rest, 5, 6) = "io"

\* re.search(r'^https?://git.io', url): '.' is any character but a line break.
AlreadyShortened(url) ==
    \E scheme \in {"http://", "https://"} :
        /\ StartsWith(url, scheme)
        /\ LET rest == SubSeq(url, Len(scheme) + 1, Len(url))
           IN  /\ Len(rest) >= 6
               /\ SubSeq(rest, 1, 3) = "git"
               /\ CharAt(rest, 4) # "\n"
               /\ SubSeq(rest, 5, 6) = "io"

\* The outcome of one call shorten(url) when the service answers resp:
\* the returned value, the exception that escapes, whether a request was
\* posted, and whether Sentry was told.
shorten(url, resp) ==
    IF AlreadyShortened(url)
    THEN [value |-> url, raised |-> NoException, posted |-> FALSE, captured |-> FALSE]
    ELSE IF resp.exc \in {"ConnectionError", "Timeout"}
    THEN [value |-> url, raised |-> NoException, posted |-> TRUE, captured |-> FALSE]
    ELSE IF resp.exc # NoException
    THEN [value |-> url, raised |-> NoException, posted |-> TRUE, captured |-> resp.sentry]
    ELSE IF resp.status # 201
    THEN [value |-> url, raised |-> NoException, posted |-> TRUE, captured |-> FALSE]
    ELSE IF "Location" \notin DOMAIN resp.headers
    THEN [value |-> "", raised |-> "KeyError", posted |-> TRUE, captured |-> FALSE]
    ELSE [value |-> resp.headers["Location"], raised |-> NoException,
          posted |-> TRUE, captured |-> FALSE]

\* A shortener call as it is written to the log.
ShortenCall(url) == [op |-> "shorten", arg |-> url, ok |-> TRUE]

----------------------------------------------------------------------------
(* Rendered lines.  A line is kept as what it says, not as its text: its   *)
(* kind, the name it is about (a commit id, a ref, a sub-action), the      *)
(* number it states and the link it embeds.                                 *)

Line(kind, id, count, link) == [kind |-> kind, id |-> id, count |-> count, link |-> link]

\* The empty string u''.
EmptyLine == Line("", "", 0, "")

\* What a handler leaves behind: the lines yielded, the exception that
\* escapes to the caller and the log of gate decisions and shortener calls.
Result(lines, exc, entries) == [out |-> lines, raised |-> exc, log |-> entries]

Failed(exc) == Result(<<>>, exc, <<>>)

----------------------------------------------------------------------------
(* The push summarizer.                                                     *)

DefaultLineLimit == 3

\* hook.config or {}
ConfigOrEmpty(config) == IF Truthy(config) THEN config ELSE Obj(<<>>)

\* original['repository']['name'], and with full_project_name
\* original['repository']['owner']['name'] before it.
ProjectName(original, config) ==
    IF "repository" \notin DOMAIN original \/ "name" \notin DOMAIN original["repository"]
    THEN [raised |-> "KeyError", name |-> ""]
    ELSE IF ~Get(config.o, "full_project_name", FALSE)
    THEN [raised |-> NoException, name |-> original["repository"]["name"]]
    ELSE IF "owner" \notin DOMAIN original["repository"]
    THEN [raised |-> "KeyError", name |-> ""]
    ELSE [raised |-> NoException,
          name |-> original["repository"]["owner"]["name"] \o "/"
                   \o original["repository"]["name"]]

_create_push_summary(project_name, j, config, resp) ==
    LET original == j.original
    IN  IF "compare" \notin DOMAIN original
        THEN [line |-> EmptyLine, raised |-> "KeyError", log |-> <<>>]
        ELSE LET s == shorten(original["compare"], resp)
                 shown == IF Get(config.o, "show_branch", TRUE) /\ Truthy(j.branch)
                          THEN j.branch.s ELSE ""
             IN  [line |-> Line("push_summary", shown, Len(original["commits"]), s.value),
                  raised |-> s.raised,
                  log |-> <<ShortenCall(original["compare"])>>]

_create_push_final_summary(project_name, j, config) ==
    Line("push_final", "",
         Len(Get(j.original, "commits", <<>>)) - Get(config.o, "line_limit", DefaultLineLimit),
         "")

\* x.get(key) on the value of commit.get(k, {}): AttributeError when that
\* value is no mapping.
FieldOf(x, key) ==
    IF x.t # "dict" THEN [raised |-> "AttributeError", value |-> None]
    ELSE [raised |-> NoException, value |-> Get(x.o, key, None)]

\* attribute_to of _create_commit_summary: author['username'] with
\* prefer_username; if that is None author['name']; if that is None
\* committer['name'].
attribute_to(commit, config) ==
    LET committer == Get(commit, "committer", Obj(<<>>))
        author == Get(commit, "author", Obj(<<>>))
        username == IF Get(config.o, "prefer_username", TRUE)
                    THEN FieldOf(author, "username")
                    ELSE [raised |-> NoException, value |-> None]
        name == FieldOf(author, "name")
        other == FieldOf(committer, "name")
    IN  IF username.raised # NoException THEN username
        ELSE IF ~IsNone(username.value) THEN username
        ELSE IF name.raised # NoException THEN name
        ELSE IF ~IsNone(name.value) THEN name
        ELSE other

\* The line of a commit: its id and, 'if attribute_to:', its attribution.
CommitLine(commit, who) ==
    [kind |-> "commit", id |-> commit["id"], count |-> 0, link |-> "",
     attribution |-> IF Truthy(who) THEN who ELSE None]

\* The loop without the guard of the boundary: the final summary is given
\* as soon as line_limit lines are out, also when one commit is left.
RECURSIVE CommitLoop_no_boundary(_, _, _, _)
CommitLoop_no_boundary(commits, i, j, config) ==
    LET line_limit == Get(config.o, "line_limit", DefaultLineLimit)
    IN  IF commits = <<>> THEN [out |-> <<>>, raised |-> NoException]
        ELSE LET commit == Head(commits)
             IN  IF Get(config.o, "distinct_only", TRUE) /\ "distinct" \notin DOMAIN commit
                 THEN [out |-> <<>>, raised |-> "KeyError"]
                 ELSE IF Get(config.o, "distinct_only", TRUE) /\ ~commit["distinct"]
                 THEN CommitLoop_no_boundary(Tail(commits), i, j, config)
                 ELSE IF attribute_to(commit, config).raised # NoException
                 THEN [out |-> <<>>, raised |-> attribute_to(commit, config).raised]
                 ELSE IF ~({"id", "message"} \subseteq DOMAIN commit)
                 THEN [out |-> <<>>, raised |-> "KeyError"]
                 ELSE IF i >= line_limit
                 THEN [out |-> <<_create_push_final_summary("", j, config)>>,
                       raised |-> NoException]
                 ELSE LET rest == CommitLoop_no_boundary(Tail(commits), i + 1, j, config)
                      IN  [out |-> <<CommitLine(commit, attribute_to(commit, config).value)>>
                                   \o rest.out,
                           raised |-> rest.raised]

\* The loop without its break: after the final summary the remaining commit
\* lines are still looked at.
RECURSIVE CommitLoop_no_break(_, _, _, _)
CommitLoop_no_break(commits, i, j, config) ==
    LET line_limit == Get(config.o, "line_limit", DefaultLineLimit)
        num_commits == Len(Get(j.original, "commits", <<>>))
    IN  IF commits = <<>> THEN [out |-> <<>>, raised |-> NoException]
        ELSE LET commit == Head(commits)
                 rest == CommitLoop_no_break(Tail(commits), i + 1, j, config)
             IN  IF Get(config.o, "distinct_only", TRUE) /\ "distinct" \notin DOMAIN commit
                 THEN [out |-> <<>>, raised |-> "KeyError"]
                 ELSE IF Get(config.o, "distinct_only", TRUE) /\ ~commit["distinct"]
                 THEN CommitLoop_no_break(Tail(commits), i, j, config)
                 ELSE IF attribute_to(commit, config).raised # NoException
                 THEN [out |-> <<>>, raised |-> attribute_to(commit, config).raised]
                 ELSE IF ~({"id", "message"} \subseteq DOMAIN commit)
                 THEN [out |-> <<>>, raised |-> "KeyError"]
                 ELSE IF i > line_limit \/ (i = line_limit /\ ~(num_commits = i + 1))
                 THEN [out |-> <<_create_push_final_summary("", j, config)>> \o rest.out,
                       raised |-> rest.raised]
                 ELSE [out |-> <<CommitLine(commit, attribute_to(commit, config).value)>> \o rest.out,
                       raised |-> rest.raised]

\* The loop of _handle_push over enumerate(_create_commit_summary(...)):
\* commits are the payload's commits not yet visited, i the index enumerate
\* gives the next line the generator yields.
RECURSIVE CommitLoop(_, _, _, _)
CommitLoop(commits, i, j, config) ==
    LET line_limit == Get(config.o, "line_limit", DefaultLineLimit)
        num_commits == Len(Get(j.original, "commits", <<>>))
    IN  IF commits = <<>> THEN [out |-> <<>>, raised |-> NoException]
        ELSE LET commit == Head(commits)
             IN  IF Get(config.o, "distinct_only", TRUE) /\ "distinct" \notin DOMAIN commit
                 THEN [out |-> <<>>, raised |-> "KeyError"]
                 ELSE IF Get(config.o, "distinct_only", TRUE) /\ ~commit["distinct"]
                 THEN CommitLoop(Tail(commits), i, j, config)
                 ELSE IF attribute_to(commit, config).raised # NoException
                 THEN [out |-> <<>>, raised |-> attribute_to(commit, config).raised]
                 ELSE IF ~({"id", "message"} \subseteq DOMAIN commit)
                 THEN [out |-> <<>>, raised |-> "KeyError"]
                 ELSE IF i > line_limit \/ (i = line_limit /\ ~(num_commits = i + 1))
                 THEN [out |-> <<_create_push_final_summary("", j, config)>>,
                       raised |-> NoException]
                 ELSE LET rest == CommitLoop(Tail(commits), i + 1, j, config)
                      IN  [out |-> <<CommitLine(commit, attribute_to(commit, config).value)>> \o rest.out,
                           raised |-> rest.raised]

\* _create_non_commit_summary: the line, or u'' when a gate rejects.
_create_non_commit_summary(j, config, resp) ==
    LET original == j.original
        name == ProjectName(original, config)
        head == Get(original, "head_commit", None)
        link == IF "head_commit" \notin DOMAIN original
                THEN [value |-> "", raised |-> "KeyError", log |-> <<>>]
                ELSE IF ~Truthy(original["head_commit"])
                THEN [value |-> "", raised |-> NoException, log |-> <<>>]
                ELSE LET s == shorten(original["head_commit"].o["url"], resp)
                     IN  [value |-> s.value, raised |-> s.raised,
                          log |-> <<ShortenCall(original["head_commit"].o["url"])>>]
        Finish(g, kind, id) ==
            IF ~g.ok THEN [line |-> EmptyLine, raised |-> NoException, log |-> <<g>>]
            ELSE [line |-> Line(kind, id, 0, link.value), raised |-> link.raised,
                  log |-> <<g>> \o link.log]
    IN  IF name.raised # NoException
        THEN [line |-> EmptyLine, raised |-> name.raised, log |-> <<>>]
        ELSE IF Truthy(j.tag)
        THEN IF ~Truthy(head)
             THEN Finish(Gate(config, "delete", Str("tag")), "delete_tag", j.tag.s)
             ELSE Finish(Gate(config, "create", Str("tag")), "create_tag", j.tag.s)
        ELSE IF Truthy(j.branch)
        THEN IF "deleted" \notin DOMAIN original
             THEN [line |-> EmptyLine, raised |-> "KeyError", log |-> <<>>]
             ELSE IF original["deleted"]
             THEN Finish(Gate(config, "delete", Str("branch")), "delete_branch", j.branch.s)
             ELSE Finish(Gate(config, "create", Str("branch")), "create_branch", j.branch.s)
        ELSE [line |-> Line("non_commit", "", 0, link.value), raised |-> link.raised,
              log |-> link.log]

\* [b.strip().lower() for b in branches.split(',')]
BranchList(branches) == {lower(strip(b)) : b \in Range(split(branches, ","))}

\* The branch filter comparing j['branch'] as it is, not lower-cased.
BranchFiltered_case_sensitive(j, config) ==
    /\ Get(config.o, "branches", "") # ""
    /\ Truthy(j.branch)
    /\ j.branch.s \notin BranchList(config.o["branches"])

\* if branches: ... if j['branch'] and j['branch'].lower() not in branches
BranchFiltered(j, config) ==
    /\ Get(config.o, "branches", "") # ""
    /\ Truthy(j.branch)
    /\ lower(j.branch.s) \notin BranchList(config.o["branches"])

\* The no-commits part behind the push gate: a whitelist without "push"
\* drops tag and branch activity too.
NoCommits_push_gated(j, config, resp) ==
    LET s == _create_non_commit_summary(j, config, resp)
        g == Gate(config, "push", None)
        forTag == Get(config.o, "show_tags", TRUE) /\ Truthy(j.tag)
        forBranch == Truthy(j.branch)
    IN  IF ~g.ok THEN Result(<<>>, NoException, <<g>>)
        ELSE IF ~(forTag \/ forBranch) THEN Result(<<>>, NoException, <<>>)
        ELSE IF s.raised # NoException THEN Result(<<>>, s.raised, s.log)
        ELSE Result(<<s.line>>, NoException, s.log)

\* The part of _handle_push for a payload without commits: at most one
\* non-commit summary for a tag (if show_tags) and one for a branch.
NoCommits(j, config, resp) ==
    LET s == _create_non_commit_summary(j, config, resp)
        forTag == Get(config.o, "show_tags", TRUE) /\ Truthy(j.tag)
        forBranch == Truthy(j.branch)
    IN  IF ~(forTag \/ forBranch) THEN Result(<<>>, NoException, <<>>)
        ELSE IF s.raised # NoException THEN Result(<<>>, s.raised, s.log)
        ELSE IF forTag /\ forBranch THEN Result(<<s.line, s.line>>, NoException, s.log \o s.log)
        ELSE Result(<<s.line>>, NoException, s.log)

\* The part of _handle_push for a payload with commits.
WithCommits(j, config, resp) ==
    LET name == ProjectName(j.original, config)
        g == Gate(config, "push", None)
        head == _create_push_summary(name.name, j, config, resp)
        rest == CommitLoop(j.original["commits"], 0, j, config)
    IN  IF name.raised # NoException THEN Failed(name.raised)
        ELSE IF ~g.ok THEN Result(<<>>, NoException, <<g>>)
        ELSE IF head.raised # NoException THEN Result(<<>>, head.raised, <<g>> \o head.log)
        ELSE Result(<<head.line>> \o rest.out, rest.raised, <<g>> \o head.log)

HandlePush(json, hookconfig, resp) ==
    LET j == simplify_payload(json)
        config == ConfigOrEmpty(hookconfig)
    IN  IF j.raised # NoException THEN Failed(j.raised)
        ELSE IF BranchFiltered(j, config) THEN Result(<<>>, NoException, <<>>)
        ELSE IF "commits" \notin DOMAIN json THEN Failed("KeyError")
        ELSE IF json["commits"] = <<>> THEN NoCommits(j, config, resp)
        ELSE WithCommits(j, config, resp)

----------------------------------------------------------------------------
(* The non-push renderers.  A payload of these events is kept as a mapping *)
(* from the paths the renderers read ("issue.html_url") to strings.  Each  *)
(* renderer is: the category and the payload key of its whitelist gate     *)
(* (action_key "" where the decorator is given None), the paths its body   *)
(* reads, in evaluation order, and the path whose value it shortens.       *)

Handler(category, action_key, reads, url) ==
    [category |-> category, action_key |-> action_key, reads |-> reads, url |-> url]

Renderers ==
    [issues |-> Handler("issue", "action",
        <<"repository.name", "sender.login", "action", "issue.number", "issue.title",
          "issue.html_url">>, "issue.html_url"),
     issue_comment |-> Handler("issue_comment", "action",
        <<"action", "repository.name", "sender.login", "issue.number", "issue.title",
          "comment.html_url">>, "comment.html_url"),
     commit_comment |-> Handler("commit_comment", "action",
        <<"action", "repository.name", "comment.user.login", "comment.commit_id",
          "comment.html_url">>, "comment.html_url"),
     create |-> Handler("create", "ref_type",
        <<"ref", "repository.name", "sender.login", "ref_type", "repository.html_url">>,
        "repository.html_url"),
     delete |-> Handler("delete", "ref_type",
        <<"repository.name", "sender.login", "ref_type", "ref", "repository.html_url">>,
        "repository.html_url"),
     pull_request |-> Handler("pr", "action",
        <<"repository.name", "sender.login", "action", "number", "pull_request.title",
          "pull_request.html_url">>, "pull_request.html_url"),
     pull_request_review_comment |-> Handler("pr_review", "action",
        <<"comment.pull_request_url", "repository.name", "comment.user.login",
          "comment.html_url">>, "comment.html_url"),
     watch |-> Handler("watch", "action",
        <<"repository.name", "sender.login", "sender.html_url">>, "sender.html_url"),
     release |-> Handler("release", "action",
        <<"repository.name", "sender.login", "action", "release.tag_name", "release.name",
          "release.html_url">>, "release.html_url"),
     fork |-> Handler("fork", "",
        <<"repository.name", "forkee.owner.login", "forkee.owner.html_url">>,
        "forkee.owner.html_url"),
     member |-> Handler("member", "action",
        <<"repository.name", "sender.login", "action", "member.login", "member.html_url">>,
        "member.html_url"),
     public |-> Handler("public", "", <<"repository.name", "sender.login">>, ""),
     team_add |-> Handler("team_add", "",
        <<"repository.name", "sender.login", "team.name">>, ""),
     status |-> Handler("status", "state",
        <<"state", "repository.name", "description", "target_url">>, "")]

\* The first position of reads whose path the payload lacks, 0 if none.
FirstMissing(reads, json) ==
    IF \E i \in DOMAIN reads : reads[i] \notin DOMAIN json
    THEN CHOOSE i \in DOMAIN reads :
            /\ reads[i] \notin DOMAIN json
            /\ \A k \in 1..(i - 1) : reads[k] \in DOMAIN json
    ELSE 0

\* The body of a renderer that yields one line: the reads in order, the
\* shortener call where the link is read, then the line.
OneLine(kind, reads, url, json, resp) ==
    LET m == FirstMissing(reads, json)
        u == IF \E i \in DOMAIN reads : reads[i] = url
             THEN CHOOSE i \in DOMAIN reads : reads[i] = url ELSE 0
        called == u # 0 /\ (m = 0 \/ u < m)
        s == IF called THEN shorten(json[url], resp)
             ELSE [value |-> "", raised |-> NoException, posted |-> FALSE, captured |-> FALSE]
        entries == IF called THEN <<ShortenCall(json[url])>> ELSE <<>>
    IN  IF s.raised # NoException THEN Result(<<>>, s.raised, entries)
        ELSE IF m # 0 THEN Result(<<>>, "KeyError", entries)
        ELSE Result(<<Line(kind, Get(json, "action", ""), 0, s.value)>>, NoException, entries)

\* The wrapper with the gate after the renderer has run: a rejected event
\* has already made its shortener calls.
action_filter_late(category, action_key, json, hookconfig, body) ==
    IF action_key # "" /\ action_key \notin DOMAIN json THEN Failed("KeyError")
    ELSE LET event == IF action_key # "" THEN Str(json[action_key]) ELSE None
             g == Gate(hookconfig, category, event)
         IN  IF ~g.ok THEN Result(<<>>, NoException, body.log \o <<g>>)
             ELSE Result(body.out, body.raised, body.log \o <<g>>)

\* The wrapper action_filter(category, action_key) puts around a renderer f:
\* event = json[action_key] if action_key else None, then the gate, then f.
action_filter(category, action_key, json, hookconfig, body) ==
    IF action_key # "" /\ action_key \notin DOMAIN json THEN Failed("KeyError")
    ELSE LET event == IF action_key # "" THEN Str(json[action_key]) ELSE None
             g == Gate(hookconfig, category, event)
         IN  IF ~g.ok THEN Result(<<>>, NoException, <<g>>)
             ELSE Result(body.out, body.raised, <<g>> \o body.log)

\* A renderer of the table without its wrapper, the way _handle_ping is
\* written: the body runs whatever the whitelist holds.
Render_ungated(event, json, hookconfig, resp) ==
    LET h == Renderers[event]
    IN  OneLine(event, h.reads, h.url, json, resp)

\* A renderer of the table, wrapped.
Render(event, json, hookconfig, resp) ==
    LET h == Renderers[event]
    IN  action_filter(h.category, h.action_key, json, hookconfig,
                      OneLine(event, h.reads, h.url, json, resp))

\* The per-page lines of _handle_gollum for more than one page.
PageKeys == {"page_name", "action", "html_url"}

RECURSIVE PageLines(_, _)
PageLines(pages, resp) ==
    IF pages = <<>> THEN Result(<<>>, NoException, <<>>)
    ELSE IF ~(PageKeys \subseteq DOMAIN Head(pages)) THEN Failed("KeyError")
    ELSE LET s == shorten(Head(pages)["html_url"], resp)
             call == <<ShortenCall(Head(pages)["html_url"])>>
             rest == PageLines(Tail(pages), resp)
         IN  IF s.raised # NoException THEN Result(<<>>, s.raised, call)
             ELSE Result(<<Line("gollum_page", Head(pages)["action"], 0, s.value)>> \o rest.out,
                         rest.raised, call \o rest.log)

gollum_body(json, resp) ==
    IF ~({"repository.name", "pages"} \subseteq DOMAIN json) THEN Failed("KeyError")
    ELSE IF Len(json["pages"]) > 1
    THEN IF "sender.login" \notin DOMAIN json THEN Failed("KeyError")
         ELSE LET rest == PageLines(json["pages"], resp)
              IN  Result(<<Line("gollum", "", Len(json["pages"]), "")>> \o rest.out,
                         rest.raised, rest.log)
    ELSE IF json["pages"] = <<>> THEN Failed("IndexError")
    ELSE IF "sender.login" \notin DOMAIN json THEN Failed("KeyError")
    ELSE LET one == PageLines(json["pages"], resp)
         IN  Result(IF one.out = <<>> THEN <<>>
                    ELSE <<Line("gollum", one.out[1].id, 1, one.out[1].link)>>,
                    one.raised, one.log)

ping_body(json) ==
    IF "zen" \notin DOMAIN json THEN Failed("KeyError")
    ELSE Result(<<Line("ping", json["zen"], 0, "")>>, NoException, <<>>)

\* yield ''
stub_body == Result(<<EmptyLine>>, NoException, <<>>)

----------------------------------------------------------------------------
(* What the caller hands over.                                              *)

\* A response of the shortening service to requests.post.
Response(exc, sentry, status, headers) ==
    [exc |-> exc, sentry |-> sentry, status |-> status, headers |-> headers]

Created(location) == Response(NoException, FALSE, 201, [Location |-> location])

ShortUrls == {"https://git.io/abc1", "http://git.io/xyz2"}

Responses ==
    {Response(e, FALSE, 0, <<>>) : e \in {"ConnectionError", "Timeout"}}
    \cup {Response("SSLError", b, 0, <<>>) : b \in BOOLEAN}
    \cup {Response(NoException, FALSE, c, <<>>) : c \in {200, 429}}
    \cup {Response(NoException, FALSE, 429, [Location |-> "https://git.io/abc1"])}
    \cup {Created(u) : u \in ShortUrls \cup {"https://github.com/404"}}
    \cup {Response(NoException, FALSE, 201, <<>>)}

\* The responses tried while a hook request is rendered.
RenderResponses ==
    {Created("https://git.io/abc1"), Response("Timeout", FALSE, 0, <<>>),
     Response(NoException, FALSE, 201, <<>>)}

\* URLs handed to shorten directly.
Urls ==
    ShortUrls \cup
    {"https://git.io", "https://github.com/o/r/commit/1f2e3d4",
     "https://git.io:443/abc1", "https://git.io.example.com/x", "https://gitxio/y",
     "https://example.com/?u=https://git.io/abc1", "ftp://files.example.com/a"}

\* hook.config for the whitelist: None, {}, or a dict with 'events'.
EventSets ==
    {{}, {"push"}, {"issue_opened", "pr_opened", "status_success", "fork", "gollum_created"},
     {"create_tag", "delete_branch", "issue_comment_created", "watch_started", "team_add"}}

GateConfigs == {None, Obj(<<>>)} \cup {Obj([events |-> es]) : es \in EventSets}

\* The choices of GithubConfigForm.events, as (category, sub-action).
Choice(category, action) == [category |-> category, action |-> action]

EventChoices ==
    {Choice("commit_comment", "created")}
    \cup {Choice("status", a) : a \in {"error", "failure", "pending", "success"}}
    \cup {Choice(c, a) : c \in {"create", "delete"}, a \in {"branch", "tag"}}
    \cup {Choice(c, a) : c \in {"issue_comment", "pr_review"},
                         a \in {"created", "deleted", "edited"}}
    \cup {Choice(c, a) : c \in {"issue", "pr"},
                         a \in {"assigned", "closed", "edited", "labeled", "opened",
                                "reopened", "unassigned", "unlabeled"}}
    \cup {Choice("pr", "synchronize"), Choice("push", ""), Choice("release", "published"),
          Choice("member", "added"), Choice("team_add", ""), Choice("fork", ""),
          Choice("public", ""), Choice("watch", "started")}
    \cup {Choice("gollum", a) : a \in {"created", "edited"}}

KnownActions(category) == {c.action : c \in {x \in EventChoices : x.category = category}}

\* The keys of the table event_handler of handle_request.
KnownEvents ==
    {"ping", "push", "issues", "issue_comment", "commit_comment", "create", "delete",
     "pull_request", "pull_request_review_comment", "gollum", "watch", "release", "fork",
     "member", "public", "team_add", "status", "deployment", "deployment_status"}

UnknownEvents == {"", "star", "Push"}

\* A mapping restricted to its keys but k.
Without(f, k) == [x \in (DOMAIN f) \ {k} |-> f[x]]

\* The sub-actions tried for an event: two the form knows, one it does not
\* know, and the empty one.
TriedActions(category) ==
    LET known == KnownActions(category) \ {""}
        some == IF known = {} THEN {}
                ELSE {CHOOSE a \in known : \A b \in known : Len(a) <= Len(b)}
    IN  some \cup {"frobnicated", ""}

\* A well-formed payload of a table renderer, its sub-action being a.
EventPayload(event, a) ==
    LET h == Renderers[event]
        paths == Range(h.reads) \cup (IF h.action_key = "" THEN {} ELSE {h.action_key})
    IN  [x \in paths |->
            IF x = h.action_key THEN a
            ELSE IF x = h.url THEN "https://github.com/o/r/" \o event
            ELSE "x"]

\* The payloads tried for a table renderer: well-formed, or lacking one path.
EventPayloads(event) ==
    LET full == {EventPayload(event, a) : a \in TriedActions(Renderers[event].category)}
    IN  full \cup {Without(f, k) : f \in {EventPayload(event, "frobnicated")},
                                   k \in DOMAIN EventPayload(event, "frobnicated")}

Page(action, url) == [page_name |-> "Home", action |-> action, html_url |-> url]

PageLists ==
    UNION {[1..n -> {Page("edited", "https://github.com/o/r/wiki/Home"),
                     Without(Page("created", "https://git.io/abc1"), "html_url")}]
           : n \in 0..MaxPages}

GollumPayloads ==
    LET full == {("action" :> a) @@ ("pages" :> ps) @@ ("repository.name" :> "r")
                 @@ ("sender.login" :> "u")
                 : a \in {"edited", "frobnicated"}, ps \in PageLists}
    IN  full \cup {Without(f, k) : f \in {x \in full : Len(x["pages"]) = MaxPages},
                                   k \in {"action", "pages", "sender.login"}}

----------------------------------------------------------------------------
(* Push payloads and the configurations of the push summarizer.            *)

\* A key the mapping lacks.
Absent == [t |-> "absent"]
BoolVal(b) == [t |-> "bool", b |-> b]
IntVal(n) == [t |-> "int", n |-> n]

\* The one-key mapping k: v, or the empty mapping when x is Absent.
Opt(k, x, v) == IF x.t = "absent" THEN <<>> ELSE k :> v

Commit(i, distinct) ==
    [id |-> "c" \o CharAt("123456789", i), message |-> "fix", distinct |-> distinct,
     added |-> <<"a.py">>, removed |-> <<>>, modified |-> <<"b.py">>]

CommitLists(lo, hi) ==
    UNION {{[i \in 1..n |-> Commit(i, d[i])] : d \in [1..n -> BOOLEAN]} : n \in lo..hi}

HeadCommit == Obj([id |-> "1f2e3d4c5b6a", url |-> "https://github.com/o/r/commit/1f2e3d4"])

PushPayload(ref, base_ref, commits, head_commit, deleted, pusher) ==
    [repository |-> [name |-> "r", owner |-> [name |-> "o"]],
     compare |-> "https://github.com/o/r/compare/a...b",
     commits |-> commits]
    @@ Opt("ref", ref, ref) @@ Opt("base_ref", base_ref, base_ref)
    @@ Opt("head_commit", head_commit, head_commit)
    @@ Opt("deleted", deleted, IF deleted.t = "bool" THEN deleted.b ELSE FALSE)
    @@ Opt("pusher", pusher, pusher)

Alice == Obj([name |-> Str("alice")])

PushConfig(branches, events, show_tags, line_limit, distinct_only, full_project_name) ==
    Obj(Opt("branches", branches, IF branches.t = "str" THEN branches.s ELSE "")
        @@ Opt("events", events, IF events.t = "set" THEN events.e ELSE {})
        @@ Opt("show_tags", show_tags, IF show_tags.t = "bool" THEN show_tags.b ELSE TRUE)
        @@ Opt("line_limit", line_limit, IF line_limit.t = "int" THEN line_limit.n ELSE 0)
        @@ Opt("distinct_only", distinct_only,
               IF distinct_only.t = "bool" THEN distinct_only.b ELSE TRUE)
        @@ Opt("full_project_name", full_project_name,
               IF full_project_name.t = "bool" THEN full_project_name.b ELSE FALSE))

Events(es) == [t |-> "set", e |-> es]

\* A request as handle_request sees it: the Content-Type header, the body
\* (the JSON body, or the form field 'payload': "missing", "unparseable" or
\* "ok"), the X-GitHub-Event header and, when the body parses, its value.
HookRequest(content_type, body, event, json) ==
    [kind |-> "hook", content_type |-> content_type, body |-> body, event |-> event,
     json |-> json]

Scenario(req, config, resp) == [request |-> req, hook |-> config, service |-> resp]

JsonPush(json) == HookRequest("application/json", "ok", "push", json)

\* Pushes with commits: every distinct/non-distinct flagging, every limit.
CommitPushes ==
    {Scenario(JsonPush(PushPayload(Str("refs/heads/master"), None, cs, HeadCommit,
                                   BoolVal(FALSE), Alice)),
              PushConfig(Absent, es, Absent, ll, d, Absent),
              Created("https://git.io/abc1"))
     : cs \in CommitLists(1, MaxCommits),
       ll \in {Absent} \cup {IntVal(n) : n \in (-1)..MaxLimit},
       d \in {Absent, BoolVal(FALSE)},
       es \in {Absent, Events({"push"}), Events({"issue_opened"})}}

RefValues ==
    {Absent, None} \cup
    {Str(r) : r \in {"refs/heads/master", "refs/heads/Master", "refs/heads/feature",
                     "refs/tags/v1", "refs/heads/", "refs/pull/1/head",
                     "xrefs/heads/master", ""}}

BaseRefValues == {Absent, None, Str("refs/heads/dev"), Str("refs/tags/v2"), Str("master")}

\* Pushes of every ref and base_ref under every branch filter.
RefPushes ==
    {Scenario(JsonPush(PushPayload(ref, base, cs, HeadCommit, BoolVal(FALSE), Alice)),
              PushConfig(b, es, Absent, Absent, Absent, Absent),
              Created("https://git.io/abc1"))
     : ref \in RefValues, base \in BaseRefValues,
       cs \in CommitLists(0, 1),
       b \in {Absent, Str(""), Str("master, dev"), Str(" Master ,DEV")},
       es \in {Absent, Events({"push"}), Events({"create_tag"})}}

\* Pushes without commits: tags and branches created and deleted.
NoCommitPushes ==
    {Scenario(JsonPush(PushPayload(ref, Absent, <<>>, hc, del, pusher)),
              PushConfig(Absent, es, st, Absent, Absent, Absent), resp)
     : ref \in {Str("refs/heads/master"), Str("refs/tags/v1"), Str("refs/tags/")},
       hc \in {Absent, None, HeadCommit},
       del \in {Absent, BoolVal(TRUE), BoolVal(FALSE)},
       pusher \in {Absent, Alice, Obj([name |-> Str("none")])},
       st \in {Absent, BoolVal(FALSE)},
       es \in {Absent} \cup {Events(e) : e \in EventSets \ {{}}},
       resp \in RenderResponses}

\* Pushes whose payload lacks what the summarizer reads, and pushes to a
\* hook without configuration.
OddPushes ==
    LET payloads ==
            {Without(PushPayload(Str("refs/heads/master"), None, cs, HeadCommit,
                                 BoolVal(FALSE), p), k)
             : cs \in CommitLists(0, 1), p \in {Alice, None, Obj(<<>>)},
               k \in {"repository", "commits", "compare", "none"}}
            \cup {PushPayload(Str("refs/heads/master"), None, <<Without(Commit(1, TRUE), k)>>,
                              HeadCommit, BoolVal(FALSE), Alice)
                  : k \in {"distinct", "added", "id", "message"}}
    IN  {Scenario(JsonPush(p), c, resp)
         : p \in payloads,
           c \in {None, Obj(<<>>),
                  PushConfig(Absent, Absent, Absent, Absent, BoolVal(FALSE), BoolVal(TRUE))},
           resp \in RenderResponses}

\* commit['author'] and commit['committer']: absent, null, or a mapping
\* whose values are absent, null, empty or a name.
NameValues(name) == {Absent, None, Str(""), Str(name)}

Authors ==
    {Absent, None}
    \cup {Obj(Opt("username", u, u) @@ Opt("name", n, n))
          : u \in NameValues("ann"), n \in NameValues("Ann Lee")}

Committers == {Absent, None} \cup {Obj(Opt("name", n, n)) : n \in NameValues("Com Mitter")}

AttributedCommit(i, author, committer) ==
    Commit(i, TRUE) @@ Opt("author", author, author) @@ Opt("committer", committer, committer)

\* Pushes of two commits, the first of every authorship, under every
\* setting of prefer_username.
AttributionPushes ==
    {Scenario(JsonPush(PushPayload(Str("refs/heads/master"), None,
                                   <<AttributedCommit(1, a, c),
                                     AttributedCommit(2, Obj([name |-> Str("Bob")]), Absent)>>,
                                   HeadCommit, BoolVal(FALSE), Alice)),
              Obj(Opt("prefer_username", p, IF p.t = "bool" THEN p.b ELSE TRUE)),
              Created("https://git.io/abc1"))
     : a \in Authors, c \in Committers, p \in {Absent, BoolVal(TRUE), BoolVal(FALSE)}}

PushScenarios ==
    CommitPushes \cup RefPushes \cup NoCommitPushes \cup OddPushes \cup AttributionPushes

----------------------------------------------------------------------------
(* The other requests.                                                      *)

\* Requests for the renderers of the table, well-formed and not.
EventScenarios ==
    UNION {{Scenario(HookRequest("application/json", "ok", e, json), c, resp)
            : json \in EventPayloads(e), c \in GateConfigs, resp \in RenderResponses}
           : e \in DOMAIN Renderers}

GollumScenarios ==
    {Scenario(HookRequest("application/json", "ok", "gollum", json), c, resp)
     : json \in GollumPayloads, c \in GateConfigs, resp \in RenderResponses}

\* ping, deployment and deployment_status.
PlainScenarios ==
    {Scenario(HookRequest("application/json", "ok", e, json), c, Created("https://git.io/abc1"))
     : e \in {"ping", "deployment", "deployment_status"},
       json \in {[zen |-> "Keep it logically awesome."], [hook_id |-> "1"]},
       c \in GateConfigs}

\* Both transports, with the payload missing, unparseable or parsed, and
\* event types the table does not hold.
TransportScenarios ==
    {Scenario(HookRequest(ct, body, e,
                          IF body # "ok" THEN <<>>
                          ELSE IF e = "issues" THEN EventPayload("issues", "opened")
                          ELSE [zen |-> "Keep it logically awesome."]),
              c, Created("https://git.io/abc1"))
     : ct \in {"application/json", "application/x-www-form-urlencoded",
               "application/json; charset=utf-8"},
       body \in {"missing", "unparseable", "ok"},
       e \in {"ping", "issues"} \cup UnknownEvents,
       c \in GateConfigs}

HookScenarios ==
    PushScenarios \cup EventScenarios \cup GollumScenarios \cup PlainScenarios
    \cup TransportScenarios

----------------------------------------------------------------------------
(* The state machine.                                                       *)

NoRequest(url) ==
    [kind |-> "shorten", content_type |-> "", body |-> "", event |-> "", json |-> <<>>,
     url |-> url]

Init ==
    /\ \/ \E sc \in HookScenarios :
            /\ request = sc.request
            /\ hook = sc.hook
            /\ service = sc.service
            /\ pc = "received"
       \/ \E u \in Urls :
            /\ request = NoRequest(u)
            /\ hook = None
            /\ service = Created("https://git.io/abc1")
            /\ pc = "shorten"
    /\ out = <<>>
    /\ raised = NoException
    /\ log = <<>>
    /\ calls = <<>>

\* The first lines of handle_request: request.get_json() for a JSON body
\* (which raises BadRequest on a body that is no JSON), else
\* json.loads(request.form['payload']) with the KeyError of a missing field
\* caught.  state is "return", "raise" or "parsed".
ParsePayload(req) ==
    IF req.content_type = "application/json"
    THEN IF req.body = "ok" THEN [state |-> "parsed", raised |-> NoException]
         ELSE [state |-> "raise", raised |-> "BadRequest"]
    ELSE IF req.body = "missing" THEN [state |-> "return", raised |-> NoException]
    ELSE IF req.body = "unparseable" THEN [state |-> "raise", raised |-> "ValueError"]
    ELSE [state |-> "parsed", raised |-> NoException]

\* handle_request reaches event_handler[event] for this event.
Dispatched(event) ==
    /\ pc = "received"
    /\ ParsePayload(request).state = "parsed"
    /\ request.event = event

\* The handler's outcome reaches the caller.
Return(r) ==
    /\ out' = r.out
    /\ raised' = r.raised
    /\ log' = r.log
    /\ pc' = "done"
    /\ UNCHANGED <<request, hook, service, calls>>

\* handle_request without the test 'if event not in event_handler': the
\* lookup event_handler[event] raises KeyError.
handle_request_unchecked ==
    /\ pc = "received"
    /\ LET p == ParsePayload(request)
       IN  \/ /\ p.state = "return"
              /\ Return(Result(<<>>, NoException, <<>>))
           \/ /\ p.state = "raise"
              /\ Return(Failed(p.raised))
           \/ /\ p.state = "parsed"
              /\ request.event \notin KnownEvents
              /\ Return(Failed("KeyError"))

\* handle_request ends without a handler: the payload is missing or does
\* not parse, or the event is not in the table.
handle_request ==
    /\ pc = "received"
    /\ LET p == ParsePayload(request)
       IN  \/ /\ p.state = "return"
              /\ Return(Result(<<>>, NoException, <<>>))
           \/ /\ p.state = "raise"
              /\ Return(Failed(p.raised))
           \/ /\ p.state = "parsed"
              /\ request.event \notin KnownEvents
              /\ Return(Result(<<>>, NoException, <<>>))

_handle_ping == Dispatched("ping") /\ Return(ping_body(request.json))

_handle_push == Dispatched("push") /\ Return(HandlePush(request.json, hook, service))

_handle_issues == Dispatched("issues") /\ Return(Render("issues", request.json, hook, service))

_handle_issue_comment == Dispatched("issue_comment") /\ Return(Render("issue_comment", request.json, hook, service))

_handle_commit_comment == Dispatched("commit_comment") /\ Return(Render("commit_comment", request.json, hook, service))

_handle_create == Dispatched("create") /\ Return(Render("create", request.json, hook, service))

_handle_delete == Dispatched("delete") /\ Return(Render("delete", request.json, hook, service))

_handle_pull_request == Dispatched("pull_request") /\ Return(Render("pull_request", request.json, hook, service))

_handle_pull_request_review_comment == Dispatched("pull_request_review_comment") /\ Return(Render("pull_request_review_comment", request.json, hook, service))

_handle_watch == Dispatched("watch") /\ Return(Render("watch", request.json, hook, service))

_handle_release == Dispatched("release") /\ Return(Render("release", request.json, hook, service))

_handle_fork == Dispatched("fork") /\ Return(Render("fork", request.json, hook, service))

_handle_member == Dispatched("member") /\ Return(Render("member", request.json, hook, service))

_handle_public == Dispatched("public") /\ Return(Render("public", request.json, hook, service))

_handle_team_add == Dispatched("team_add") /\ Return(Render("team_add", request.json, hook, service))

_handle_status == Dispatched("status") /\ Return(Render("status", request.json, hook, service))

_handle_gollum ==
    /\ Dispatched("gollum")
    /\ Return(action_filter("gollum", "action", request.json, hook,
                            gollum_body(request.json, service)))

_handle_deployment == Dispatched("deployment") /\ Return(stub_body)

_handle_deployment_status == Dispatched("deployment_status") /\ Return(stub_body)

\* A direct call of GithubHook.shorten: on the URL handed over, then on what
\* the call before returned; the service answers each call as it likes.
Last(seq) == seq[Len(seq)]

NextUrl == IF calls = <<>> THEN request.url ELSE Last(calls).result.value

shorten_call ==
    /\ pc = "shorten"
    /\ Len(calls) < MaxCalls
    /\ \E resp \in Responses :
        LET r == shorten(NextUrl, resp)
        IN  /\ calls' = Append(calls, [url |-> NextUrl, resp |-> resp, result |-> r])
            /\ raised' = r.raised
            /\ pc' = IF r.raised # NoException THEN "returned" ELSE "shorten"
    /\ UNCHANGED <<request, hook, service, out, log>>

Next ==
    \/ handle_request
    \/ _handle_ping
    \/ _handle_push
    \/ _handle_issues
    \/ _handle_issue_comment
    \/ _handle_commit_comment
    \/ _handle_create
    \/ _handle_delete
    \/ _handle_pull_request
    \/ _handle_pull_request_review_comment
    \/ _handle_watch
    \/ _handle_release
    \/ _handle_fork
    \/ _handle_member
    \/ _handle_public
    \/ _handle_team_add
    \/ _handle_status
    \/ _handle_gollum
    \/ _handle_deployment
    \/ _handle_deployment_status
    \/ shorten_call

Spec == Init /\ [][Next]_vars

----------------------------------------------------------------------------
(* Properties.                                                              *)

\* A hook request has been handled.
HookDone == request.kind = "hook" /\ pc = "done"

\* A hook request whose payload parsed has been handled by the handler of event.
Handled(event) ==
    HookDone /\ ParsePayload(request).state = "parsed" /\ request.event = event

\* The number of lines of one kind in the output.
CountKind(kind) == Cardinality({i \in DOMAIN out : out[i].kind = kind})

\* A push with commits that passed the branch filter and the push gate and
\* was rendered to its end.
PushRendered ==
    /\ Handled("push")
    /\ raised = NoException
    /\ "commits" \in DOMAIN request.json
    /\ request.json["commits"] # <<>>
    /\ ~BranchFiltered(simplify_payload(request.json), ConfigOrEmpty(hook))
    /\ is_event_allowed(ConfigOrEmpty(hook), "push", None)

\* N: the commits eligible for display.
EligibleCount ==
    LET distinct_only == Get(ConfigOrEmpty(hook).o, "distinct_only", TRUE)
        Shown(c) == (~distinct_only) \/ c["distinct"]
    IN  Len(SelectSeq(request.json["commits"], Shown))

LineLimit == Get(ConfigOrEmpty(hook).o, "line_limit", DefaultLineLimit)

\* C1: a push that passes the branch filter and the push gate, with N
\* eligible commits and line_limit L >= 0, emits N commit lines and no
\* truncation line if N <= L + 1, and L commit lines followed by the one
\* truncation line "... and K more commits.", K = raw commit count - L, if
\* N > L + 1.
C1_Truncation ==
    (PushRendered /\ LineLimit >= 0) =>
        LET N == EligibleCount
            L == LineLimit
            K == Len(request.json["commits"]) - L
        IN  /\ N <= L + 1 => CountKind("commit") = N /\ CountKind("push_final") = 0
            /\ N > L + 1 =>
                /\ CountKind("commit") = L
                /\ CountKind("push_final") = 1
                /\ out[Len(out)] = Line("push_final", "", K, "")

\* The renderers behind action_filter, and the category and sub-action the
\* gate is given for the request.
Gated == DOMAIN Renderers \cup {"gollum"}

GateCategory == IF request.event = "gollum" THEN "gollum" ELSE Renderers[request.event].category

GateKey == IF request.event = "gollum" THEN "action" ELSE Renderers[request.event].action_key

GateAction == IF GateKey = "" THEN None ELSE Str(request.json[GateKey])

\* A gated renderer was dispatched and the sub-action its gate needs is there.
GateReached ==
    /\ HookDone
    /\ ParsePayload(request).state = "parsed"
    /\ request.event \in Gated
    /\ GateKey = "" \/ GateKey \in DOMAIN request.json

\* The whitelist is enabled: config and config.events are there and not empty.
WhitelistEnabled ==
    /\ ~IsNone(hook)
    /\ "events" \in DOMAIN hook.o
    /\ hook.o["events"] # {}

\* The whitelist key: category alone when the sub-action is unset or empty.
WhitelistKey(category, action) ==
    IF IsNone(action) \/ action.s = "" THEN category ELSE category \o "_" \o action.s

\* C2: is_event_allowed(config, category, action) is true whenever config or
\* config.events is absent or empty, and otherwise exactly when the key
\* (category, or category_action) is in config.events.
C2_IsEventAllowed ==
    GateReached =>
        /\ log # <<>>
        /\ log[1].op = "is_event_allowed"
        /\ log[1].ok = IF WhitelistEnabled
                       THEN WhitelistKey(GateCategory, GateAction) \in hook.o["events"]
                       ELSE TRUE

\* A gate with a non-empty whitelist rejected a request with a sub-action,
\* and another key of the same whitelist is allowed.
C2_Witness ==
    /\ GateReached
    /\ WhitelistEnabled
    /\ request.event = "issues"
    /\ GateAction = Str("edited")
    /\ "issue_opened" \in hook.o["events"]
    /\ log[1].ok = FALSE

\* C3: a whitelist gate that rejects an event does so before any shortener
\* call: no run holds a shortener call for an event that is filtered out.
C3_GateBeforeShorten ==
    HookDone =>
        \A i \in DOMAIN log :
            (log[i].op = "is_event_allowed" /\ ~log[i].ok) =>
                \A k \in DOMAIN log : log[k].op # "shorten"

\* An issues event with a link to shorten was rejected by the whitelist.
C3_Witness ==
    /\ Handled("issues")
    /\ "issue.html_url" \in DOMAIN request.json
    /\ Len(log) = 1
    /\ log[1].op = "is_event_allowed"
    /\ ~log[1].ok
    /\ out = <<>>

\* A push whose normalized branch is set, to a hook with a branch filter.
BranchFilterApplies ==
    /\ Handled("push")
    /\ simplify_payload(request.json).raised = NoException
    /\ Truthy(simplify_payload(request.json).branch)
    /\ Get(ConfigOrEmpty(hook).o, "branches", "") # ""

\* The lower-cased branch is among the trimmed, lower-cased entries.
BranchListed ==
    lower(simplify_payload(request.json).branch.s)
        \in {lower(strip(b)) : b \in Range(split(hook.o["branches"], ","))}

\* C4 as stated: a push on a branch outside config.branches yields nothing;
\* a push on a listed branch (case-insensitively) yields a non-empty output.
C4_AsStated ==
    BranchFilterApplies =>
        /\ ~BranchListed => out = <<>> /\ log = <<>> /\ raised = NoException
        /\ BranchListed => out # <<>>

\* C4 amended: a push on a branch outside config.branches yields nothing;
\* a push on a listed branch is not suppressed by the branch filter: it
\* yields what the same push yields without a branch filter, which is not
\* empty when the push carries commits and the whitelist admits "push".
C4_BranchFilter ==
    BranchFilterApplies =>
        /\ ~BranchListed => out = <<>> /\ log = <<>> /\ raised = NoException
        /\ BranchListed =>
            /\ Result(out, raised, log)
                 = HandlePush(request.json, Obj(Without(hook.o, "branches")), service)
            /\ ( /\ request.json["commits"] # <<>>
                 /\ is_event_allowed(hook, "push", None)
                 /\ raised = NoException ) => out # <<>>

\* A push on "Master" passed the filter "master, dev" and was rendered.
C4_Witness ==
    /\ BranchFilterApplies
    /\ simplify_payload(request.json).branch = Str("Master")
    /\ hook.o["branches"] = "master, dev"
    /\ out # <<>>
    /\ out[1].kind = "push_summary"

\* C5: shorten never lets a failure escape: whatever the external call does,
\* it returns a URL, and the original URL on every outcome but success.
C5_ShortenNeverRaises ==
    \A i \in DOMAIN calls :
        /\ calls[i].result.raised = NoException
        /\ (calls[i].resp.exc # NoException \/ calls[i].resp.status # 201)
              => calls[i].result.value = calls[i].url

\* The first position of p in s, 0 if there is none.
IndexOf(s, p) ==
    LET at == {i \in 1..(Len(s) - Len(p) + 1) : SubSeq(s, i, i + Len(p) - 1) = p}
    IN  IF at = {} THEN 0 ELSE CHOOSE i \in at : \A k \in at : i <= k

\* The text of s before the first of the characters stops.
RECURSIVE Before(_, _)
Before(s, stops) ==
    IF s = "" \/ CharAt(s, 1) \in stops THEN ""
    ELSE CharAt(s, 1) \o Before(SubSeq(s, 2, Len(s)), stops)

\* The scheme and the host of an absolute URL scheme://host[:port][/...].
SchemeOf(url) == SubSeq(url, 1, IndexOf(url, "://") - 1)

HostOf(url) ==
    IF IndexOf(url, "://") = 0 THEN ""
    ELSE Before(SubSeq(url, IndexOf(url, "://") + 3, Len(url)), {"/", "?", "#", ":"})

\* A web URL on the host of the shortening service.
OnServiceHost(url) == SchemeOf(url) \in {"http", "https"} /\ HostOf(url) = ServiceHost

\* C6: shorten returns a URL whose host is the service's host unchanged and
\* without an external call; so shortening what a call returned, when that
\* is a URL on the service's host, returns it again.
C6_Idempotent ==
    \A i \in DOMAIN calls :
        /\ OnServiceHost(calls[i].url) =>
            /\ calls[i].result.value = calls[i].url
            /\ ~calls[i].result.posted
            /\ calls[i].result.raised = NoException
        /\ (i > 1 /\ OnServiceHost(calls[i - 1].result.value)) =>
            /\ calls[i].result.value = calls[i - 1].result.value
            /\ ~calls[i].result.posted

\* A long URL was posted and answered with a short one, which the next call
\* returned as it was, over either scheme.
C6_Witness ==
    /\ Len(calls) >= 2
    /\ ~OnServiceHost(calls[1].url)
    /\ calls[1].result.posted
    /\ calls[1].result.value = "http://git.io/xyz2"
    /\ calls[2].url = "http://git.io/xyz2"
    /\ calls[2].result.value = "http://git.io/xyz2"
    /\ ~calls[2].result.posted

\* C7: handle_request yields nothing and raises nothing when the payload is
\* missing or does not parse, over both transports.
C7_AsStated ==
    (HookDone /\ request.body # "ok") => out = <<>> /\ raised = NoException

\* The shortening service does not answer 201 without a Location header.
ShortenerAnswers ==
    service.exc # NoException \/ service.status # 201 \/ "Location" \in DOMAIN service.headers

\* A renderer of the table was dispatched with a sub-action the form's
\* choices do not hold for its category.
UnknownAction ==
    /\ HookDone
    /\ ParsePayload(request).state = "parsed"
    /\ request.event \in DOMAIN Renderers
    /\ GateKey # ""
    /\ GateKey \in DOMAIN request.json
    /\ request.json[GateKey] # ""
    /\ request.json[GateKey] \notin KnownActions(GateCategory)

\* The payload has every path its renderer reads.
WellFormed == request.json = EventPayload(request.event, request.json[GateKey])

UnknownEvent ==
    HookDone /\ ParsePayload(request).state = "parsed" /\ request.event \notin KnownEvents

\* C8 as stated: an event of an unknown type, or with a sub-action unknown
\* for its category, yields nothing and raises nothing, whatever the hook's
\* configuration.
C8_AsStated ==
    (UnknownEvent \/ (UnknownAction /\ WellFormed /\ ShortenerAnswers)) =>
        out = <<>> /\ raised = NoException

\* C8 amended: an event of an unknown type yields nothing and raises
\* nothing, whatever the configuration; an event with an unknown sub-action
\* does so when the whitelist is enabled and does not hold its key, and is
\* rendered like any other sub-action when the whitelist is disabled.
C8_UnknownIgnored ==
    /\ UnknownEvent => out = <<>> /\ raised = NoException /\ log = <<>>
    /\ ( /\ UnknownAction
         /\ WhitelistEnabled
         /\ WhitelistKey(GateCategory, GateAction) \notin hook.o["events"] ) =>
            out = <<>> /\ raised = NoException
    /\ (UnknownAction /\ WellFormed /\ ShortenerAnswers /\ ~WhitelistEnabled) =>
            /\ raised = NoException
            /\ Len(out) = 1
            /\ out[1].kind = request.event

\* An issues event with the sub-action "frobnicated" met an enabled
\* whitelist and was dropped.
C8_Witness ==
    /\ UnknownAction
    /\ request.event = "issues"
    /\ request.json["action"] = "frobnicated"
    /\ WhitelistEnabled
    /\ ~log[1].ok
    /\ out = <<>>
    /\ raised = NoException

\* The payload lacks a field its renderer reads.
LacksField ==
    CASE request.event = "ping" -> "zen" \notin DOMAIN request.json
      [] request.event = "push" -> ~({"commits", "repository"} \subseteq DOMAIN request.json)
      [] request.event \in DOMAIN Renderers ->
            \E path \in (Range(Renderers[request.event].reads) \cup {GateKey}) \ {""} :
                path \notin DOMAIN request.json
      [] OTHER -> FALSE

\* C9: for a known event type, a payload that lacks a field the renderer
\* expects yields no line and raises nothing.
C9_AsStated ==
    ( /\ HookDone
      /\ ParsePayload(request).state = "parsed"
      /\ request.event \in KnownEvents
      /\ LacksField ) => out = <<>> /\ raised = NoException

\* The value of refs/heads/<name> or refs/tags/<name> that wins: ref, if it
\* matches, else base_ref, if it matches.
RefMatches(v) ==
    v.t = "str" /\ (StartsWith(v.s, "refs/heads/") \/ StartsWith(v.s, "refs/tags/"))

WinningRef ==
    LET ref == Get(request.json, "ref", Absent)
        base_ref == Get(request.json, "base_ref", Absent)
    IN  IF RefMatches(ref) THEN ref ELSE IF RefMatches(base_ref) THEN base_ref ELSE Absent

\* C10: for every push payload, ref and base_ref each present, absent or
\* null, normalization completes; the first of ref, base_ref that matches
\* refs/(heads|tags)/<name> sets branch or tag to <name> and leaves the
\* other unset; if neither matches both stay unset.
C10_AsStated ==
    Handled("push") =>
        LET j == simplify_payload(request.json)
            w == WinningRef
        IN  /\ raised # "TypeError"
            /\ ~(~IsNone(j.branch) /\ ~IsNone(j.tag))
            /\ w.t = "absent" => IsNone(j.branch) /\ IsNone(j.tag)
            /\ (w.t = "str" /\ StartsWith(w.s, "refs/heads/")) =>
                /\ j.branch = Str(SubSeq(w.s, Len("refs/heads/") + 1, Len(w.s)))
                /\ IsNone(j.tag)
            /\ (w.t = "str" /\ StartsWith(w.s, "refs/tags/")) =>
                /\ j.tag = Str(SubSeq(w.s, Len("refs/tags/") + 1, Len(w.s)))
                /\ IsNone(j.branch)

\* The handlers of the table other than _handle_push.
NonPushEvents == KnownEvents \ {"push"}

\* A handler other than _handle_push was dispatched and, where it is behind
\* action_filter, the payload holds the sub-action the gate reads.
NonPushHandled ==
    /\ HookDone
    /\ ParsePayload(request).state = "parsed"
    /\ request.event \in NonPushEvents
    /\ request.event \in Gated => (GateKey = "" \/ GateKey \in DOMAIN request.json)

\* The whitelist key of the event: category or category_action behind
\* action_filter, the event's own name where there is no wrapper.
EventKey ==
    IF request.event \in Gated THEN WhitelistKey(GateCategory, GateAction) ELSE request.event

\* The whitelist is enabled and does not hold the event's key.
NotWhitelisted == WhitelistEnabled /\ EventKey \notin hook.o["events"]

\* C11 as stated: every handler of the table but _handle_push emits nothing
\* when config.events is non-empty and does not contain the event's key.
C11_AsStated ==
    (NonPushHandled /\ NotWhitelisted) => out = <<>>

\* C11 amended: every renderer behind action_filter (issues, issue_comment,
\* commit_comment, create, delete, pull_request, pull_request_review_comment,
\* gollum, watch, release, fork, member, public, team_add, status) emits
\* nothing, raises nothing and calls no shortener when config.events is
\* non-empty and does not contain the event's key; ping is not gated and
\* emits its line whatever the whitelist holds; deployment and
\* deployment_status emit their one empty line whatever the whitelist holds.
C11_GatedRenderers ==
    NonPushHandled =>
        /\ (request.event \in Gated /\ NotWhitelisted) =>
              /\ out = <<>>
              /\ raised = NoException
              /\ \A i \in DOMAIN log : log[i].op # "shorten"
        /\ (request.event = "ping" /\ "zen" \in DOMAIN request.json) =>
              out = <<Line("ping", request.json["zen"], 0, "")>> /\ log = <<>>
        /\ request.event \in {"deployment", "deployment_status"} =>
              out = <<EmptyLine>> /\ log = <<>>

\* A public event, gated on its category alone, met a whitelist without
\* "public" and was dropped.
C11_Witness ==
    /\ NonPushHandled
    /\ request.event = "public"
    /\ request.json = EventPayload("public", "")
    /\ NotWhitelisted
    /\ log = <<[op |-> "is_event_allowed", arg |-> "public", ok |-> FALSE]>>
    /\ out = <<>>

\* A push whose payload carries an empty commits list was handled past the
\* branch filter.
ZeroCommitPush ==
    /\ Handled("push")
    /\ "commits" \in DOMAIN request.json
    /\ request.json["commits"] = <<>>
    /\ simplify_payload(request.json).raised = NoException
    /\ ~BranchFiltered(simplify_payload(request.json), ConfigOrEmpty(hook))

\* The whitelist keys of the non-commit summary.
NonCommitKeys == {"create_tag", "delete_tag", "create_branch", "delete_branch"}

\* One of the gates of the non-commit summary rejected the event.
NonCommitRejected ==
    \E i \in DOMAIN log :
        /\ log[i].op = "is_event_allowed"
        /\ log[i].arg \in NonCommitKeys
        /\ ~log[i].ok

\* C12: for a push without commits, when the gate create_tag, delete_tag,
\* create_branch or delete_branch rejects the event, the output of the push
\* handler holds no element for it.
C12_AsStated ==
    (ZeroCommitPush /\ NonCommitRejected /\ raised = NoException) => out = <<>>

\* A push whose payload carries commits was handled.
CommitPush ==
    /\ Handled("push")
    /\ "commits" \in DOMAIN request.json
    /\ request.json["commits"] # <<>>

\* The commits of the payload that are kept, in payload order: all of them,
\* or with distinct_only those flagged distinct.
KeptCommits ==
    LET distinct_only == Get(ConfigOrEmpty(hook).o, "distinct_only", TRUE)
        Kept(c) == (~distinct_only) \/ ("distinct" \in DOMAIN c /\ c["distinct"])
    IN  SelectSeq(request.json["commits"], Kept)

\* The commit lines of the output, in output order.
IsCommitLine(l) == l.kind = "commit"

CommitLines == SelectSeq(out, IsCommitLine)

\* C13: the lines of a push with commits come in the order summary, detail,
\* truncation: if any line is emitted the header is the first and the only
\* header; the commit lines follow in payload order, one per kept commit
\* from the first on (no line for a non-distinct commit when distinct_only
\* is true); at most one truncation line is emitted, and it is the last.
C13_PushOrder ==
    (CommitPush /\ out # <<>>) =>
        /\ out[1].kind = "push_summary"
        /\ \A i \in 2..Len(out) : out[i].kind \in {"commit", "push_final"}
        /\ \A i \in 1..Len(out) : out[i].kind = "push_final" => i = Len(out)
        /\ Len(CommitLines) <= Len(KeptCommits)
        /\ \A i \in 1..Len(CommitLines) : CommitLines[i].id = KeptCommits[i]["id"]

\* A push of four commits, the second non-distinct, at line_limit 1: header,
\* the line of the first commit, then the truncation line.
C13_Witness ==
    /\ CommitPush
    /\ Len(request.json["commits"]) = 4
    /\ ~request.json["commits"][2]["distinct"]
    /\ Len(KeptCommits) = 3
    /\ Len(out) = 3
    /\ out[1].kind = "push_summary"
    /\ out[2].kind = "commit"
    /\ out[2].id = "c1"
    /\ out[3].kind = "push_final"

\* A push whose payload carries an empty commits list was handled and its
\* payload was normalized.
ZeroCommits ==
    /\ Handled("push")
    /\ "commits" \in DOMAIN request.json
    /\ request.json["commits"] = <<>>
    /\ simplify_payload(request.json).raised = NoException

\* hook.config with "push" put into config.events if it is not there, and
\* taken out of it if it is.
TogglePush(config) ==
    LET es == IF Truthy(config) THEN Get(config.o, "events", {}) ELSE {}
        toggled == IF "push" \in es THEN es \ {"push"} ELSE es \cup {"push"}
    IN  Obj(("events" :> toggled) @@ (IF Truthy(config) THEN config.o ELSE <<>>))

\* The whitelist holds a key other than "push".
OtherKeysListed ==
    Truthy(hook) /\ Get(hook.o, "events", {}) \ {"push"} # {}

\* The lines a push without commits never emits.
CommitKinds == {"push_summary", "commit", "push_final"}

\* What _handle_push emits for a push without commits: at most one line, for
\* a tag only with show_tags, for a branch that passes the branch filter
\* always, none when neither a tag nor a branch is resolved.
ZeroCommitLines ==
    LET j == simplify_payload(request.json)
        config == ConfigOrEmpty(hook)
    IN  /\ \A i \in DOMAIN out : out[i].kind \notin CommitKinds
        /\ Len(out) <= 1
        /\ \A i \in DOMAIN log : log[i].arg # "push"
        /\ (~Truthy(j.tag) /\ ~Truthy(j.branch)) => out = <<>> /\ raised = NoException
        /\ (Truthy(j.tag) /\ ~Get(config.o, "show_tags", TRUE)) =>
              out = <<>> /\ raised = NoException
        /\ (Truthy(j.tag) /\ Get(config.o, "show_tags", TRUE) /\ raised = NoException) =>
              Len(out) = 1
        /\ (Truthy(j.branch) /\ ~BranchFiltered(j, config) /\ raised = NoException) =>
              Len(out) = 1

\* The output is what the same push yields with "push" toggled in
\* config.events.
SameWithPushToggled ==
    LET other == HandlePush(request.json, TogglePush(hook), service)
    IN  out = other.out /\ raised = other.raised

\* C14 as stated: a push without commits ends in the no-commits branch, emits
\* no header, commit or truncation line and at most one non-commit summary
\* line, and whether "push" is in config.events has no influence on its
\* output.
C14_AsStated ==
    (ZeroCommits /\ {"head_commit", "deleted"} \subseteq DOMAIN request.json) =>
        ZeroCommitLines /\ SameWithPushToggled

\* C14 amended: a push without commits emits no header, commit or truncation
\* line and at most one non-commit summary line, and the push gate is never
\* consulted; when config.events holds a key other than "push", putting
\* "push" in or taking it out does not change the output.
C14_ZeroCommits ==
    ZeroCommits =>
        /\ ZeroCommitLines
        /\ OtherKeysListed => SameWithPushToggled

\* A tag was created against a whitelist that holds create_tag and not push,
\* and its line was emitted.
C14_Witness ==
    /\ ZeroCommits
    /\ simplify_payload(request.json).tag = Str("v1")
    /\ OtherKeysListed
    /\ "push" \notin hook.o["events"]
    /\ "create_tag" \in hook.o["events"]
    /\ Len(out) = 1
    /\ out[1].kind = "create_tag"

\* A push with commits whose authors and committers are mappings or absent
\* was rendered to its end.
Attributed ==
    /\ PushRendered
    /\ \A k \in DOMAIN request.json["commits"] :
          /\ Get(request.json["commits"][k], "author", Obj(<<>>)).t = "dict"
          /\ Get(request.json["commits"][k], "committer", Obj(<<>>)).t = "dict"

\* The values considered for a commit, in priority order: the author's
\* handle (with prefer_username), the author's name, the committer's name.
Considered(commit) ==
    LET author == Get(commit, "author", Obj(<<>>)).o
        committer == Get(commit, "committer", Obj(<<>>)).o
        handle == IF Get(ConfigOrEmpty(hook).o, "prefer_username", TRUE)
                  THEN <<Get(author, "username", None)>> ELSE <<>>
    IN  handle \o <<Get(author, "name", None), Get(committer, "name", None)>>

\* The first value of a sequence that is not empty, None if there is none.
FirstNonEmpty(values) ==
    LET at == {i \in DOMAIN values : Truthy(values[i])}
    IN  IF at = {} THEN None ELSE values[CHOOSE i \in at : \A k \in at : i <= k]

\* C15: the attribution of each kept commit is the first non-empty value
\* among the author's handle (considered only with prefer_username), the
\* author's name and the committer's name; the attribution clause is left
\* out of the commit line exactly when none of them is non-empty.
C15_AsStated ==
    Attributed =>
        \A k \in 1..Len(CommitLines) :
            CommitLines[k].attribution = FirstNonEmpty(Considered(KeptCommits[k]))

\* The truncation lines of the output.
IsFinalLine(l) == l.kind = "push_final"

FinalLines == SelectSeq(out, IsFinalLine)

\* C16: no push yields a truncation line for a single commit: for every
\* payload, every distinct/non-distinct flagging of its commits and every
\* line_limit, a truncation line that is emitted announces the raw commit
\* count minus line_limit, and that number is at least 2.
C16_NoSingleTruncation ==
    CommitPush =>
        \A k \in 1..Len(FinalLines) :
            /\ FinalLines[k].count = Len(request.json["commits"]) - LineLimit
            /\ FinalLines[k].count >= 2

\* A push of three commits, one of them non-distinct, at line_limit 1: the
\* truncation line announces 2 more commits, the least it ever announces.
C16_Witness ==
    /\ CommitPush
    /\ Len(request.json["commits"]) = 3
    /\ Len(KeptCommits) = 2
    /\ LineLimit = 1
    /\ Len(FinalLines) = 1
    /\ FinalLines[1].count = 2
    /\ out[Len(out)].kind = "push_final"

====
